---------------------------- MODULE Spec2Model ----------------------------
(***************************************************************************)
(* Model of LDATAModifier (src/LDATA/ldata_unlock_local_api.py): the       *)
(* serial-console workflow that enables the local HTTP API of an LDATA     *)
(* device.                                                                 *)
(*                                                                         *)
(* Text is a sequence of symbols.  A symbol is one character, or an        *)
(* indivisible fragment of a fixed word (a banner half, a command word)    *)
(* inside which, and across which, none of the patterns the program        *)
(* searches for can match.  Python's `p in s` is IsSubstr(p, s).           *)
(* Optional[int] is a sequence: <<>> is None, <<v>> is the integer v.      *)
(***************************************************************************)
EXTENDS Integers, Sequences, FiniteSets, TLC

NL == "\n"
None == <<>>
Some(v) == <<v>>

Digits == {"0", "1", "2", "3", "4", "5", "6", "7", "8", "9"}
Whitespace == {" ", "\t", "\r", NL}

(* ------------------------------ str helpers --------------------------- *)

\* p in s
IsSubstr(p, s) ==
    \E i \in 0..(Len(s) - Len(p)) : SubSeq(s, i + 1, i + Len(p)) = p

\* s.split(sep) for a one-character separator: empty pieces are kept
RECURSIVE SplitOn(_, _)
SplitOn(s, seps) ==
    IF s = <<>> THEN << <<>> >>
    ELSE LET rest == SplitOn(Tail(s), seps)
         IN  IF Head(s) \in seps
             THEN << <<>> >> \o rest
             ELSE << <<Head(s)>> \o Head(rest) >> \o Tail(rest)

\* s.split(): runs of whitespace separate, no empty pieces
SplitWs(s) == SelectSeq(SplitOn(s, Whitespace), LAMBDA f : f # <<>>)

RECURSIVE LStrip(_)
LStrip(s) ==
    IF s # <<>> /\ Head(s) \in Whitespace THEN LStrip(Tail(s)) ELSE s

RECURSIVE RStrip(_)
RStrip(s) ==
    IF s # <<>> /\ s[Len(s)] \in Whitespace
    THEN RStrip(SubSeq(s, 1, Len(s) - 1)) ELSE s

\* s.strip()
Strip(s) == RStrip(LStrip(s))

DigitVal(c) ==
    CASE c = "0" -> 0 [] c = "1" -> 1 [] c = "2" -> 2 [] c = "3" -> 3
      [] c = "4" -> 4 [] c = "5" -> 5 [] c = "6" -> 6 [] c = "7" -> 7
      [] c = "8" -> 8 [] c = "9" -> 9

RECURSIVE DecVal(_)
DecVal(s) ==
    IF s = <<>> THEN 0
    ELSE 10 * DecVal(SubSeq(s, 1, Len(s) - 1)) + DigitVal(s[Len(s)])

IntBody(f) == IF f # <<>> /\ Head(f) \in {"-", "+"} THEN Tail(f) ELSE f

\* int(f) does not raise ValueError
IsInt(f) == IntBody(f) # <<>> /\ \A i \in 1..Len(IntBody(f)) : IntBody(f)[i] \in Digits

\* int(f), for IsInt(f)
IntVal(f) ==
    IF f # <<>> /\ Head(f) = "-" THEN 0 - DecVal(IntBody(f)) ELSE DecVal(IntBody(f))

\* mutant of Truthy: the test of the result left out
\* mutant of Truthy: the test "is not None", which takes index 0 as identified
TruthyNotNone(opt) == opt # None
TruthyAny(opt) == TRUE
\* Python truthiness of an Optional[int]: None and 0 are falsy
Truthy(opt) == opt # None /\ opt[1] # 0

(* --------------------------- console vocabulary ----------------------- *)

\* "MX6UL_VAR_DART(mmc)==>", in two fragments
BootBanner == <<"MX6UL_VAR_DART", "(mmc)==>">>
\* "HTTP API server started on port", in two fragments
ApiBanner == <<"HTTP API server", " started on port">>
\* 'HTTP_API_ALWAYS_ON'
FlagFile == <<"HTTP_API_ALWAYS_ON">>
\* 'mmcdev='
MmcdevKey == <<"mmcdev", "=">>
\* ['74', '72', '75', '65']
CheckedCodes == << <<"7", "4">>, <<"7", "2">>, <<"7", "5">>, <<"6", "5">> >>
\* mutant of FlagCodes: two bytes in the wrong order
FlagCodesSwapped == << <<"7", "4">>, <<"7", "5">>, <<"7", "2">>, <<"6", "5">>, <<"0", "a">> >>
\* the hex codes of the five bytes of "true\n" that the mw.b commands write
FlagCodes == << <<"7", "4">>, <<"7", "2">>, <<"7", "5">>, <<"6", "5">>, <<"0", "a">> >>
\* last hex digit of the scratch addresses 0x82000000 .. 0x82000004
AddrDigit == <<"0", "1", "2", "3", "4">>
NumFlagBytes == 5

\* str(n) for n >= 0
RECURSIVE DecStr(_)
DecStr(n) ==
    LET d == <<"0", "1", "2", "3", "4", "5", "6", "7", "8", "9">>[(n % 10) + 1]
    IN  IF n < 10 THEN <<d>> ELSE DecStr(n \div 10) \o <<d>>

\* f"{data_partition}"
OptStr(opt) == IF opt = None THEN <<"None">> ELSE DecStr(opt[1])

\* the bytes of a command line, by the command written
CmdText(cmd) ==
    CASE cmd.op = "printenv"  -> <<"printenv", NL>>
      [] cmd.op = "mmc dev"   -> <<"mmc dev ">> \o cmd.arg \o <<NL>>
      [] cmd.op = "mmc part"  -> <<"mmc part", NL>>
      [] cmd.op = "mw.b fill" -> <<"mw.b 0x8200000", "0", " ", "0", " ", "6300000", NL>>
      [] cmd.op = "mw.b"      -> <<"mw.b 0x8200000", AddrDigit[cmd.arg[1]], " 0x">>
                                    \o FlagCodes[cmd.arg[1]] \o <<NL>>
      [] cmd.op = "md.b"      -> <<"md.b 0x8200000", "0", " 0x", "5", NL>>
      [] cmd.op = "ext4write" -> <<"ext4write mmc 1:">> \o OptStr(cmd.arg)
                                    \o <<" 0x82000000 /">> \o FlagFile \o <<" ", "5", NL>>
      [] cmd.op = "ext4ls"    -> <<"ext4ls mmc 1:">> \o OptStr(cmd.arg) \o <<NL>>
      [] cmd.op = "reset"     -> <<"reset", NL>>

Cmd(op, arg) == [op |-> op, arg |-> arg]

(* ------------------------ identify_data_partition --------------------- *)

\* for line in output.split('\n'): if 'mmcdev=' in line: ... break / else: raise
MmcdevLines(output) ==
    SelectSeq(SplitOn(output, {NL}), LAMBDA line : IsSubstr(MmcdevKey, line))

FindMmcdev(output) ==
    IF MmcdevLines(output) = <<>>
    THEN [found |-> FALSE, mmcdev |-> <<>>]
    ELSE [found |-> TRUE,
          mmcdev |-> Strip(SplitOn(Head(MmcdevLines(output)), {"="})[2])]

InitMaxSize == 0
\* mutant of InitDataPart: the first partition as the default
InitDataPartDefault == Some(1)
InitDataPart == None

\* line.strip() and line[0].isdigit()
StartsWithDigit(line) == Strip(line) # <<>> /\ Head(line) \in Digits

\* size > max_size
Larger(size, max_size) == size > max_size

\* the loop over part_output.split('\n'); raised: int() raised ValueError
RECURSIVE PartLoop(_, _, _)
PartLoop(lines, max_size, data_part) ==
    IF lines = <<>> THEN [raised |-> FALSE, data_part |-> data_part]
    ELSE LET line  == Head(lines)
             parts == SplitWs(line)
         IN  IF StartsWithDigit(line) /\ Len(parts) >= 3
             THEN IF ~IsInt(parts[3])
                  THEN [raised |-> TRUE, data_part |-> data_part]
                  ELSE IF Larger(IntVal(parts[3]), max_size)
                       THEN IF ~IsInt(parts[1])
                            THEN [raised |-> TRUE, data_part |-> data_part]
                            ELSE PartLoop(Tail(lines), IntVal(parts[3]),
                                          Some(IntVal(parts[1])))
                       ELSE PartLoop(Tail(lines), max_size, data_part)
             ELSE PartLoop(Tail(lines), max_size, data_part)

\* what identify_data_partition returns for the 'mmc part' output
DataPartitionOf(part_output) ==
    LET r == PartLoop(SplitOn(part_output, {NL}), InitMaxSize, InitDataPart)
    IN  IF r.raised THEN None ELSE r.data_part

(* ------------------------------- bounds ------------------------------- *)

\* serial ports the host may list
MaxPorts == 1
\* bytes the device may emit during one bootloader wait
MaxRx == 3
\* lines of a partition table drawn for the parser
MaxLines == 2
\* seconds the clock may advance between two polls of wait_for_bootloader
PollTick == 10
\* seconds one iteration of the verify loop takes (sleep(1) plus the read)
VerifyTick == 20

(* --------------------------- program constants ------------------------ *)

\* mutant of MaxTries: one try more
MaxTriesFour == 3 + 1
\* backoff.on_exception(..., max_tries=3)
MaxTries == 3
\* wait_for_bootloader(timeout=30), wait_for_bootloader(timeout=60)
FirstTimeout == 30
RetryTimeout == 60
\* verify_modifications: timeout = 60
VerifyTimeout == 60

(* ------------------------- what the device sends ---------------------- *)

Line3(f0, f1, f2) == f0 \o <<" ">> \o f1 \o <<" ">> \o f2

RECURSIVE JoinLines(_)
JoinLines(ls) ==
    IF ls = <<>> THEN <<>> ELSE Head(ls) \o <<NL>> \o JoinLines(Tail(ls))

\* responses to printenv
PrintenvResponses ==
    { <<>>,
      <<"bootdelay", "=", "3", NL>>,
      <<"bootdelay", "=", "3", NL, "mmcdev", "=", "1", "\r", NL>> \o BootBanner }

\* responses to 'mmc part'
PartResponses ==
    { <<>>,
      <<"Part", " ", "Start", " ", "Size", NL>>,
      JoinLines(<< Line3(<<"1">>, <<"a">>, <<"5">>), Line3(<<"2">>, <<"a">>, <<"9">>) >>),
      JoinLines(<< Line3(<<"2">>, <<"a">>, <<"9">>), Line3(<<"1">>, <<"a">>, <<"5">>) >>)
         \o BootBanner,
      JoinLines(<< Line3(<<"0">>, <<"a">>, <<"9">>), Line3(<<"1">>, <<"a">>, <<"5">>) >>),
      JoinLines(<< Line3(<<"1">>, <<"a">>, <<"b">>) >>),
      JoinLines(<< Line3(<<"1">>, <<"a">>, <<"0">>) >>) }

\* candidate lines of a partition table, for the parser on its own
ParseLines ==
    { <<>>,
      <<"P", "a", "r", "t">>,
      <<"1", " ", "a">>,
      Line3(<<"1">>, <<"a">>, <<"5">>),
      Line3(<<"2">>, <<"a">>, <<"9">>),
      Line3(<<"2">>, <<"a">>, <<"5">>),
      Line3(<<"0">>, <<"a">>, <<"9">>),
      Line3(<<"1", "0">>, <<"a">>, <<"1", "2">>),
      Line3(<<"1">>, <<"a">>, <<"0">>),
      Line3(<<"2">>, <<"a">>, <<"-", "1">>),
      Line3(<<"1">>, <<"a">>, <<"b">>),
      Line3(<<"1", "b">>, <<"a">>, <<"9">>),
      <<" ">> \o Line3(<<"2">>, <<"a">>, <<"9">>) }

ParseTexts ==
    { JoinLines(ls) : ls \in UNION { [1..n -> ParseLines] : n \in 0..MaxLines } }

\* what md.b prints for a memory image
DumpText(m) ==
    <<"82000000:">> \o <<" ">> \o m[1] \o <<" ">> \o m[2] \o <<" ">> \o m[3]
        \o <<" ">> \o m[4] \o <<" ">> \o m[5] \o <<NL>>

ZeroByte == <<"0", "0">>

\* responses to md.b: nothing, the memory as it is, or with one byte lost
DumpResponses(m) ==
    { <<>>, DumpText(m) }
        \cup { DumpText([m EXCEPT ![a] = ZeroByte]) : a \in 1..NumFlagBytes }

\* responses to ext4write
Ext4WriteResponses == { <<>>, <<"5 bytes written", NL>> }

\* responses to ext4ls
Ext4LsResponses ==
    { <<>>,
      <<"<DIR> 4096 .", NL>>,
      <<"<DIR> 4096 .", NL, "5", " ">> \o FlagFile \o <<NL>> }

\* bytes that may arrive between two polls of wait_for_bootloader
WaitArrivals == { <<>>, <<BootBanner[1]>>, <<BootBanner[2]>>, <<"x">> }

\* bytes that may arrive after reset, per sleep
ApiArrivals == { <<>>, <<ApiBanner[1]>>, <<ApiBanner[2]>>, ApiBanner, <<"x">> }

(* -------------------------------- state ------------------------------- *)

VARIABLES
    pc,          \* position of run()
    device,      \* the LDATADevice record
    serial,      \* self.serial: "none", "open" or "closed"
    tries,       \* calls of connect_serial made by the backoff decorator
    rx,          \* bytes received on the serial line and not yet read
    sent,        \* the commands written to the serial line, in order
    mmcdev,      \* identify_data_partition: mmcdev
    attempt,     \* which call of wait_for_bootloader is running (0: none yet)
    buffer,      \* wait_for_bootloader: buffer
    elapsed,     \* time.time() - start_time of the running wait loop
    idx,         \* enable_api_access: position in commands
    echo,        \* whether the console echoes the command lines it receives
    mem,         \* device RAM at 0x82000000 .. 0x82000004, as hex codes
    backup_dir,  \* backup_<timestamp> has been created
    backup_file, \* device_info.json has been written
    asked,       \* Confirm.ask: "no" (not asked), "confirmed" or "declined"
    outcome,     \* what run() reported
    part_output, \* identify_data_partition: part_output, as last read
    env_output,  \* identify_data_partition: output, as last read
    dump_resp,   \* what the device printed for md.b
    dump_output, \* enable_api_access: output checked for the byte codes
    ls_resp,     \* what the device printed for ext4ls
    ls_output,   \* enable_api_access: output checked for the file name
    prompt_seen, \* a call of wait_for_bootloader has returned True
    waits,       \* the calls of wait_for_bootloader that have returned
    fresh,       \* the bytes received and not yet read when the running call
                 \* of wait_for_bootloader started, then those arriving in it
    api_track,   \* how far the bytes received after reset, in time for a
                 \* poll, match the startup banner
    verify_fault \* verify_modifications caught an exception

vars == <<pc, device, serial, tries, rx, sent, mmcdev, attempt, buffer, elapsed,
          idx, echo, mem, backup_dir, backup_file, asked, outcome, part_output,
          env_output, dump_resp, dump_output, ls_resp, ls_output, prompt_seen,
          waits, fresh, api_track, verify_fault>>

ghosts == <<part_output, env_output, dump_resp, dump_output, ls_resp, ls_output,
            prompt_seen>>

history == <<waits, api_track, verify_fault>>

\* LDATADevice(serial_port=port)
LDATADevice(port) ==
    [serial_port |-> port, device_id |-> None, mac_addresses |-> None,
     data_partition |-> None, api_enabled |-> FALSE]

InitCommon ==
    /\ device = LDATADevice(0)
    /\ serial = "none"
    /\ tries = 0
    /\ rx = <<>>
    /\ sent = <<>>
    /\ mmcdev = <<>>
    /\ attempt = 0
    /\ buffer = <<>>
    /\ elapsed = 0
    /\ idx = 1
    /\ echo \in BOOLEAN
    /\ mem = [a \in 1..NumFlagBytes |-> <<"f", "f">>]
    /\ backup_dir = FALSE
    /\ backup_file = FALSE
    /\ asked = "no"
    /\ outcome = "none"
    /\ env_output = <<>>
    /\ dump_resp = <<>>
    /\ dump_output = <<>>
    /\ ls_resp = <<>>
    /\ ls_output = <<>>
    /\ prompt_seen = FALSE
    /\ waits = <<>>
    /\ fresh = <<>>
    /\ api_track = <<>>
    /\ verify_fault = FALSE

Init ==
    /\ InitCommon
    /\ pc = "start"
    /\ part_output = <<>>

\* what the console sends back on receiving a command line
Echo(cmd) == IF echo THEN CmdText(cmd) ELSE <<>>

\* run() leaves its try block with the given report
Leave(report) ==
    /\ pc' = "finally"
    /\ outcome' = report

(* -------------------------------- run() ------------------------------- *)

\* detect_serial_ports, Prompt.ask, LDATADevice(serial_port=port)
Start ==
    /\ pc = "start"
    /\ \E n \in 0..MaxPorts :
          IF n = 0
          THEN /\ Leave("no_ports")
               /\ UNCHANGED device
          ELSE \E port \in 1..n :
                  /\ device' = LDATADevice(port)
                  /\ pc' = "connect"
                  /\ UNCHANGED outcome
    /\ UNCHANGED <<serial, tries, rx, sent, mmcdev, attempt, buffer, elapsed, idx,
                   echo, mem, backup_dir, backup_file, asked, ghosts,
                   history, fresh>>

\* connect_serial under backoff.on_exception(max_tries=3)
ConnectSerial ==
    /\ pc = "connect"
    /\ tries < MaxTries
    /\ tries' = tries + 1
    /\ \E ok \in BOOLEAN :
          IF ok
          THEN /\ serial' = "open"
               /\ pc' = "backup"
               /\ UNCHANGED outcome
          ELSE /\ UNCHANGED serial
               /\ IF tries + 1 >= MaxTries
                  THEN Leave("error")
                  ELSE UNCHANGED <<pc, outcome>>
    /\ UNCHANGED <<device, rx, sent, mmcdev, attempt, buffer, elapsed, idx, echo,
                   mem, backup_dir, backup_file, asked, ghosts,
                   history, fresh>>

\* backup_device_state
BackupDeviceState ==
    /\ pc = "backup"
    /\ \E ok \in BOOLEAN :
          IF ok
          THEN /\ backup_dir' = TRUE
               /\ backup_file' = (device.device_id # None)
               /\ pc' = "printenv"
               /\ UNCHANGED outcome
          ELSE /\ Leave("error")
               /\ UNCHANGED <<backup_dir, backup_file>>
    /\ UNCHANGED <<device, serial, tries, rx, sent, mmcdev, attempt, buffer,
                   elapsed, idx, echo, mem, asked, ghosts,
                   history, fresh>>

\* identify_data_partition: printenv, read_all, the search for mmcdev
Printenv ==
    /\ pc = "printenv"
    /\ \E ok \in BOOLEAN, resp \in PrintenvResponses :
          IF ok
          THEN LET cmd    == Cmd("printenv", <<>>)
                   output == rx \o Echo(cmd) \o resp
               IN  /\ sent' = Append(sent, cmd)
                   /\ rx' = <<>>
                   /\ env_output' = output
                   /\ IF FindMmcdev(output).found
                      THEN /\ mmcdev' = FindMmcdev(output).mmcdev
                           /\ pc' = "mmc dev"
                           /\ UNCHANGED outcome
                      ELSE /\ Leave("no_partition")
                           /\ UNCHANGED mmcdev
          ELSE /\ Leave("error")
               /\ UNCHANGED <<sent, rx, env_output, mmcdev>>
    /\ UNCHANGED <<device, serial, tries, attempt, buffer, elapsed, idx, echo, mem,
                   backup_dir, backup_file, asked, part_output, dump_resp,
                   dump_output, ls_resp, ls_output, prompt_seen,
                   history, fresh>>

\* responses to 'mmc dev'
MmcDevResponses == { <<>>, <<"mmc1(part 0) is current device", NL>> }

\* identify_data_partition: mmc dev
MmcDev ==
    /\ pc = "mmc dev"
    /\ \E ok \in BOOLEAN, resp \in MmcDevResponses :
          IF ok
          THEN LET cmd == Cmd("mmc dev", mmcdev)
               IN  /\ sent' = Append(sent, cmd)
                   /\ rx' = rx \o Echo(cmd) \o resp
                   /\ pc' = "mmc part"
                   /\ UNCHANGED outcome
          ELSE /\ Leave("no_partition")
               /\ UNCHANGED <<sent, rx>>
    /\ UNCHANGED <<device, serial, tries, mmcdev, attempt, buffer, elapsed, idx,
                   echo, mem, backup_dir, backup_file, asked, ghosts,
                   history, fresh>>

\* mutant of StartBuffer: the text read before the wait is kept in the buffer
StartBufferKept(drained) == drained
\* buffer = "" at the start of wait_for_bootloader, whatever was read before
StartBuffer(drained) == <<>>

\* identify_data_partition: mmc part, read_all, the choice of the partition;
\* run(): the assignment of the result and the test of it
MmcPart ==
    /\ pc = "mmc part"
    /\ \E ok \in BOOLEAN, resp \in PartResponses :
          IF ok
          THEN LET cmd    == Cmd("mmc part", <<>>)
                   output == rx \o Echo(cmd) \o resp
                   ret    == DataPartitionOf(output)
               IN  /\ sent' = Append(sent, cmd)
                   /\ rx' = <<>>
                   /\ part_output' = output
                   /\ device' = [device EXCEPT !.data_partition = ret]
                   /\ IF Truthy(ret)
                      THEN /\ pc' = "wait"
                           /\ attempt' = 1
                           /\ buffer' = StartBuffer(output)
                           /\ UNCHANGED outcome
                      ELSE /\ Leave("no_partition")
                           /\ UNCHANGED <<attempt, buffer>>
          ELSE /\ Leave("no_partition")
               /\ UNCHANGED <<sent, rx, part_output, device, attempt, buffer>>
    /\ fresh' = rx'
    /\ UNCHANGED <<serial, tries, mmcdev, elapsed, idx, echo, mem,
                   backup_dir, backup_file, asked, env_output, dump_resp,
                   dump_output, ls_resp, ls_output, prompt_seen,
                   history>>

\* the longest suffix of s that is a prefix of pattern
RECURSIVE Fit(_, _)
Fit(pattern, s) ==
    IF Len(s) <= Len(pattern) /\ SubSeq(pattern, 1, Len(s)) = s
    THEN s ELSE Fit(pattern, Tail(s))

\* how far a stream matches pattern after the bytes of seq; a complete match stays
RECURSIVE TrackSeq(_, _, _)
TrackSeq(pattern, tracked, seq) ==
    IF seq = <<>> \/ tracked = pattern THEN tracked
    ELSE TrackSeq(pattern, Fit(pattern, Append(tracked, Head(seq))), Tail(seq))

\* mutant of BannerFound: the end of the prompt is taken for the prompt
BannerFoundPartial(buf) == IsSubstr(<<BootBanner[2]>>, buf)
\* "MX6UL_VAR_DART(mmc)==>" in buffer
BannerFound(buf) == IsSubstr(BootBanner, buf)

\* mutant of Timeout: the retry waits with the default timeout
TimeoutDefault == FirstTimeout
\* the timeout of the running call of wait_for_bootloader
Timeout == IF attempt = 1 THEN FirstTimeout ELSE RetryTimeout

\* a call of wait_for_bootloader that has returned
WaitRecord(result, buf, stream) ==
    [timeout |-> Timeout,
     result  |-> result,
     late    |-> elapsed >= Timeout,
     banner  |-> IsSubstr(BootBanner, buf),
     arrived |-> IsSubstr(BootBanner, stream)]

\* wait_for_bootloader: one test of the deadline and one pass of the loop body;
\* run(): what follows its return
WaitForBootloader ==
    /\ pc = "wait"
    /\ IF elapsed >= Timeout
       THEN \* return False
            /\ IF attempt = 1
               THEN /\ pc' = "confirm"
                    /\ UNCHANGED outcome
               ELSE Leave("no_bootloader")
            /\ buffer' = <<>>
            /\ fresh' = <<>>
            /\ waits' = Append(waits, WaitRecord("timeout", buffer, fresh))
            /\ UNCHANGED <<rx, elapsed, prompt_seen>>
       ELSE \E ok \in BOOLEAN, arr \in WaitArrivals, dt \in {0, PollTick} :
               /\ Len(buffer) + Len(rx) + Len(arr) <= MaxRx
               /\ IF ~ok
                  THEN /\ Leave("error")
                       /\ buffer' = <<>>
                       /\ fresh' = <<>>
                       /\ waits' = Append(waits, WaitRecord("error", buffer, fresh))
                       /\ UNCHANGED <<rx, elapsed, prompt_seen>>
                  ELSE LET avail == rx \o arr
                       IN  IF avail # <<>>
                           THEN \* in_waiting: read one byte
                                IF BannerFound(Append(buffer, Head(avail)))
                                THEN \* return True
                                     /\ waits' = Append(waits,
                                           WaitRecord("found", Append(buffer, Head(avail)),
                                                      fresh \o arr))
                                     /\ fresh' = <<>>
                                     /\ pc' = "zero"
                                     /\ rx' = Tail(avail)
                                     /\ buffer' = <<>>
                                     /\ prompt_seen' = TRUE
                                     /\ elapsed' = 0
                                     /\ UNCHANGED outcome
                                ELSE /\ buffer' = Append(buffer, Head(avail))
                                     /\ rx' = Tail(avail)
                                     /\ fresh' = fresh \o arr
                                     /\ elapsed' = elapsed + dt
                                     /\ UNCHANGED <<pc, outcome, prompt_seen, waits>>
                           ELSE /\ elapsed' = elapsed + dt
                                /\ UNCHANGED <<pc, outcome, rx, buffer, prompt_seen,
                                               waits, fresh>>
    /\ UNCHANGED <<device, serial, tries, sent, mmcdev, attempt, idx, echo, mem,
                   backup_dir, backup_file, asked, part_output, env_output,
                   dump_resp, dump_output, ls_resp, ls_output,
                   api_track, verify_fault>>

\* mutant of ConfirmAsk: after the power cycle the partition is looked up again
ConfirmAskRediscover ==
    /\ pc = "confirm"
    /\ \E answer \in BOOLEAN :
          IF answer
          THEN /\ asked' = "confirmed"
               /\ pc' = "printenv"
               /\ UNCHANGED outcome
          ELSE /\ asked' = "declined"
               /\ Leave("declined")
    /\ UNCHANGED <<device, serial, tries, rx, sent, mmcdev, buffer, idx, echo, mem,
                   backup_dir, backup_file, attempt, elapsed, ghosts, history, fresh>>

\* Confirm.ask after the first wait timed out
ConfirmAsk ==
    /\ pc = "confirm"
    /\ \E answer \in BOOLEAN :
          IF answer
          THEN /\ asked' = "confirmed"
               /\ pc' = "wait"
               /\ attempt' = 2
               /\ elapsed' = 0
               /\ buffer' = StartBuffer(buffer)
               /\ fresh' = rx
               /\ UNCHANGED outcome
          ELSE /\ asked' = "declined"
               /\ Leave("declined")
               /\ UNCHANGED <<attempt, elapsed, buffer, fresh>>
    /\ UNCHANGED <<device, serial, tries, rx, sent, mmcdev, idx, echo, mem,
                   backup_dir, backup_file, ghosts,
                   history>>

(* --------------------------- enable_api_access ------------------------ *)

\* mw.b 0x82000000 0 6300000
ZeroFill ==
    /\ pc = "zero"
    /\ \E ok \in BOOLEAN :
          IF ok
          THEN LET cmd == Cmd("mw.b fill", <<>>)
               IN  /\ sent' = Append(sent, cmd)
                   /\ rx' = rx \o Echo(cmd)
                   /\ mem' = [a \in 1..NumFlagBytes |-> ZeroByte]
                   /\ idx' = 1
                   /\ pc' = "commands"
                   /\ UNCHANGED outcome
          ELSE /\ Leave("enable_failed")
               /\ UNCHANGED <<sent, rx, mem, idx>>
    /\ UNCHANGED <<device, serial, tries, mmcdev, attempt, buffer, elapsed, echo,
                   backup_dir, backup_file, asked, ghosts,
                   history, fresh>>

\* for cmd in commands: write(cmd)
WriteByte ==
    /\ pc = "commands"
    /\ \E ok \in BOOLEAN :
          IF ok
          THEN LET cmd == Cmd("mw.b", <<idx>>)
               IN  /\ sent' = Append(sent, cmd)
                   /\ rx' = rx \o Echo(cmd)
                   /\ mem' = [mem EXCEPT ![idx] = FlagCodes[idx]]
                   /\ idx' = idx + 1
                   /\ pc' = IF idx = NumFlagBytes THEN "md.b" ELSE "commands"
                   /\ UNCHANGED outcome
          ELSE /\ Leave("enable_failed")
               /\ UNCHANGED <<sent, rx, mem, idx>>
    /\ UNCHANGED <<device, serial, tries, mmcdev, attempt, buffer, elapsed, echo,
                   backup_dir, backup_file, asked, ghosts,
                   history, fresh>>

\* all(x in output for x in ['74', '72', '75', '65'])
MemoryVerified(output) ==
    \A i \in 1..Len(CheckedCodes) : IsSubstr(CheckedCodes[i], output)

\* md.b, read_all, the check of the byte codes, the test of data_partition
Dump ==
    /\ pc = "md.b"
    /\ \E ok \in BOOLEAN, resp \in DumpResponses(mem) :
          IF ok
          THEN LET cmd    == Cmd("md.b", <<>>)
                   output == rx \o Echo(cmd) \o resp
               IN  /\ sent' = Append(sent, cmd)
                   /\ rx' = <<>>
                   /\ dump_resp' = resp
                   /\ dump_output' = output
                   /\ IF MemoryVerified(output) /\ Truthy(device.data_partition)
                      THEN /\ pc' = "ext4write"
                           /\ UNCHANGED outcome
                      ELSE Leave("enable_failed")
          ELSE /\ Leave("enable_failed")
               /\ UNCHANGED <<sent, rx, dump_resp, dump_output>>
    /\ UNCHANGED <<device, serial, tries, mmcdev, attempt, buffer, elapsed, idx,
                   echo, mem, backup_dir, backup_file, asked, part_output,
                   env_output, ls_resp, ls_output, prompt_seen,
                   history, fresh>>

\* mutant of Ext4Write: the write is issued again instead of moving on
Ext4WriteAgain ==
    /\ pc = "ext4write"
    /\ \E resp \in Ext4WriteResponses :
          LET cmd == Cmd("ext4write", device.data_partition)
          IN  /\ sent' = Append(sent, cmd)
              /\ rx' = rx \o Echo(cmd) \o resp
    /\ UNCHANGED <<pc, outcome, device, serial, tries, mmcdev, attempt, buffer,
                   elapsed, idx, echo, mem, backup_dir, backup_file, asked, ghosts,
                   history, fresh>>

\* ext4write mmc 1:<data_partition> 0x82000000 /HTTP_API_ALWAYS_ON 5
Ext4Write ==
    /\ pc = "ext4write"
    /\ \E ok \in BOOLEAN, resp \in Ext4WriteResponses :
          IF ok
          THEN LET cmd == Cmd("ext4write", device.data_partition)
               IN  /\ sent' = Append(sent, cmd)
                   /\ rx' = rx \o Echo(cmd) \o resp
                   /\ pc' = "ext4ls"
                   /\ UNCHANGED outcome
          ELSE /\ Leave("enable_failed")
               /\ UNCHANGED <<sent, rx>>
    /\ UNCHANGED <<device, serial, tries, mmcdev, attempt, buffer, elapsed, idx,
                   echo, mem, backup_dir, backup_file, asked, ghosts,
                   history, fresh>>

\* 'HTTP_API_ALWAYS_ON' in output
FileListed(output) == IsSubstr(FlagFile, output)

\* ext4ls mmc 1:<data_partition>, read_all, the check of the file name
Ext4Ls ==
    /\ pc = "ext4ls"
    /\ \E ok \in BOOLEAN, resp \in Ext4LsResponses :
          IF ok
          THEN LET cmd    == Cmd("ext4ls", device.data_partition)
                   output == rx \o Echo(cmd) \o resp
               IN  /\ sent' = Append(sent, cmd)
                   /\ rx' = <<>>
                   /\ ls_resp' = resp
                   /\ ls_output' = output
                   /\ IF FileListed(output)
                      THEN /\ device' = [device EXCEPT !.api_enabled = TRUE]
                           /\ pc' = "reset"
                           /\ UNCHANGED outcome
                      ELSE /\ Leave("enable_failed")
                           /\ UNCHANGED device
          ELSE /\ Leave("enable_failed")
               /\ UNCHANGED <<sent, rx, ls_resp, ls_output, device>>
    /\ UNCHANGED <<serial, tries, mmcdev, attempt, buffer, elapsed, idx, echo, mem,
                   backup_dir, backup_file, asked, part_output, env_output,
                   dump_resp, dump_output, prompt_seen,
                   history, fresh>>

(* -------------------------- verify_modifications ---------------------- *)

\* the test of api_enabled, reset, sleep(5)
Reset ==
    /\ pc = "reset"
    /\ \E ok \in BOOLEAN, arr \in ApiArrivals :
          IF ok /\ device.api_enabled
          THEN LET cmd == Cmd("reset", <<>>)
               IN  /\ sent' = Append(sent, cmd)
                   /\ rx' = rx \o Echo(cmd) \o arr
                   /\ elapsed' = 0
                   /\ api_track' = TrackSeq(ApiBanner, <<>>, Echo(cmd) \o arr)
                   /\ pc' = "poll"
                   /\ UNCHANGED <<outcome, verify_fault>>
          ELSE /\ Leave("verify_failed")
               /\ verify_fault' = ~ok
               /\ UNCHANGED <<sent, rx, elapsed, api_track>>
    /\ UNCHANGED <<device, serial, tries, mmcdev, attempt, buffer, idx, echo, mem,
                   backup_dir, backup_file, asked, ghosts,
                   waits, fresh>>

\* mutant of ApiStarted: the start of the banner is taken for the banner
ApiStartedPartial(output) == IsSubstr(<<ApiBanner[1]>>, output)
\* "HTTP API server started on port" in output
ApiStarted(output) == IsSubstr(ApiBanner, output)

\* mutant of VerifyPoll: the reset is sent again when the banner is not there
VerifyPollReset ==
    /\ pc = "poll"
    /\ IF elapsed >= VerifyTimeout
       THEN /\ Leave("verify_failed")
            /\ UNCHANGED <<rx, elapsed, sent>>
       ELSE \E arr \in ApiArrivals :
               IF rx # <<>> /\ ApiStarted(rx)
               THEN /\ Leave("success")
                    /\ rx' = <<>>
                    /\ UNCHANGED <<elapsed, sent>>
               ELSE /\ rx' = arr
                    /\ sent' = Append(sent, Cmd("reset", <<>>))
                    /\ elapsed' = elapsed + VerifyTick
                    /\ UNCHANGED <<pc, outcome>>
    /\ UNCHANGED <<device, serial, tries, mmcdev, attempt, buffer, idx, echo,
                   mem, backup_dir, backup_file, asked, ghosts, history, fresh>>

\* mutant of VerifyPoll: the start time is taken again on every pass
VerifyPollRestart ==
    /\ pc = "poll"
    /\ IF elapsed >= VerifyTimeout
       THEN /\ Leave("verify_failed")
            /\ UNCHANGED rx
       ELSE \E arr \in ApiArrivals :
               IF rx # <<>> /\ ApiStarted(rx)
               THEN /\ Leave("success")
                    /\ rx' = <<>>
               ELSE /\ rx' = arr
                    /\ UNCHANGED <<pc, outcome>>
    /\ UNCHANGED <<device, serial, tries, sent, mmcdev, attempt, buffer, idx, echo,
                   mem, backup_dir, backup_file, asked, elapsed, ghosts, history, fresh>>

\* one test of the deadline and one pass of the loop body; run(): the report
VerifyPoll ==
    /\ pc = "poll"
    /\ IF elapsed >= VerifyTimeout
       THEN /\ Leave("verify_failed")
            /\ UNCHANGED <<rx, elapsed, api_track, verify_fault>>
       ELSE \E ok \in BOOLEAN, arr \in ApiArrivals :
               IF ~ok
               THEN /\ Leave("verify_failed")
                    /\ verify_fault' = TRUE
                    /\ UNCHANGED <<rx, elapsed, api_track>>
               ELSE IF rx # <<>> /\ ApiStarted(rx)
                    THEN /\ Leave("success")
                         /\ rx' = <<>>
                         /\ UNCHANGED <<elapsed, api_track, verify_fault>>
                    ELSE /\ rx' = arr
                         /\ elapsed' = elapsed + VerifyTick
                         /\ api_track' = IF elapsed + VerifyTick < VerifyTimeout
                                         THEN TrackSeq(ApiBanner, api_track, arr)
                                         ELSE api_track
                         /\ UNCHANGED <<pc, outcome, verify_fault>>
    /\ UNCHANGED <<device, serial, tries, sent, mmcdev, attempt, buffer, idx, echo,
                   mem, backup_dir, backup_file, asked, ghosts,
                   waits, fresh>>

\* mutant of Cleanup: the port is closed on the success path only
CleanupOnSuccess ==
    /\ pc = "finally"
    /\ serial' = IF serial = "open" /\ outcome = "success" THEN "closed" ELSE serial
    /\ pc' = "done"
    /\ UNCHANGED <<device, tries, rx, sent, mmcdev, attempt, buffer, elapsed, idx,
                   echo, mem, backup_dir, backup_file, asked, outcome, ghosts,
                   history, fresh>>

\* finally: if self.serial and self.serial.is_open: self.serial.close()
Cleanup ==
    /\ pc = "finally"
    /\ serial' = IF serial = "open" THEN "closed" ELSE serial
    /\ pc' = "done"
    /\ UNCHANGED <<device, tries, rx, sent, mmcdev, attempt, buffer, elapsed, idx,
                   echo, mem, backup_dir, backup_file, asked, outcome, ghosts,
                   history, fresh>>

Next ==
    \/ Start
    \/ ConnectSerial
    \/ BackupDeviceState
    \/ Printenv
    \/ MmcDev
    \/ MmcPart
    \/ WaitForBootloader
    \/ ConfirmAsk
    \/ ZeroFill
    \/ WriteByte
    \/ Dump
    \/ Ext4Write
    \/ Ext4Ls
    \/ Reset
    \/ VerifyPoll
    \/ Cleanup

Spec == Init /\ [][Next]_vars

\* a step that moves run() on, or a pass of a wait loop during which the clock
\* has advanced
Advance == Next /\ (pc' # pc \/ elapsed' > elapsed)

\* run() keeps executing, the operator answers the prompts and the wall clock
\* keeps advancing
SpecLive == Spec /\ WF_vars(Advance)

(* ------------------- identify_data_partition on its own --------------- *)

InitParse ==
    /\ InitCommon
    /\ pc = "parse"
    /\ part_output \in ParseTexts

\* the choice of the partition from a partition table already read
ChoosePartition ==
    /\ pc = "parse"
    /\ device' = [device EXCEPT !.data_partition = DataPartitionOf(part_output)]
    /\ pc' = "parsed"
    /\ UNCHANGED <<serial, tries, rx, sent, mmcdev, attempt, buffer, elapsed, idx,
                   echo, mem, backup_dir, backup_file, asked, outcome, ghosts,
                   history, fresh>>

NextParse == ChoosePartition

SpecParse == InitParse /\ [][NextParse]_vars

(* ------------------------------ properties ---------------------------- *)

SentOps == { sent[i].op : i \in 1..Len(sent) }
Count(op) == Cardinality({ i \in 1..Len(sent) : sent[i].op = op })

\* memory writes and the filesystem write
DestructiveOps == {"mw.b fill", "mw.b", "ext4write"}
DestructiveSent == SentOps \cap DestructiveOps # {}
\* the commands of the stages after PartitionDiscovery
LaterOps == {"mw.b fill", "mw.b", "md.b", "ext4write", "ext4ls", "reset"}

\* the lines of a partition table that start with a digit and have >= 3 fields
QualLines(text) ==
    SelectSeq(SplitOn(text, {NL}),
              LAMBDA line : StartsWithDigit(line) /\ Len(SplitWs(line)) >= 3)

\* C1: the device id is never known in a run, so the case of the claim (a
\* destructive command sent while the device id is known) does not occur
C1_DeviceIdNeverKnown == device.device_id = None

\* C2: a dump output missing one of the codes 74 72 75 65 0a makes
\* enable_api_access fail, and ext4write is not sent
C2_MissingCodeBlocksWrite ==
    ("md.b" \in SentOps
        /\ \E i \in 1..NumFlagBytes : ~IsSubstr(FlagCodes[i], dump_output))
    => ("ext4write" \notin SentOps /\ ~device.api_enabled)

\* C3: ext4write is sent only with a data partition that is set and that is
\* the index of a qualifying line of the partition table read
C3_WriteOnlyOnIdentifiedPartition ==
    \A i \in 1..Len(sent) :
        sent[i].op = "ext4write"
        => /\ device.data_partition # None
           /\ sent[i].arg = device.data_partition
           /\ \E k \in 1..Len(QualLines(part_output)) :
                 LET f0 == SplitWs(QualLines(part_output)[k])[1]
                 IN  IsInt(f0) /\ Some(IntVal(f0)) = device.data_partition

C3_Witness == "ext4write" \in SentOps /\ device.data_partition = Some(2)

\* C4: api_enabled is true only if ext4ls was sent and what the device
\* printed for it contains HTTP_API_ALWAYS_ON
C4_EnabledOnlyIfListed ==
    device.api_enabled => ("ext4ls" \in SentOps /\ FileListed(ls_resp))

\* C5: ext4write is sent at most once in a run
C5_WriteAtMostOnce == Count("ext4write") <= 1

C5_Witness == Count("ext4write") = 1 /\ asked = "confirmed" /\ pc = "done"

\* C6: when run() has ended the serial port is not open, and run() ends only
\* through the cleanup
C6_ClosedAtEnd ==
    /\ pc = "done" => serial # "open"
    /\ (serial = "open" /\ pc # "done") => ENABLED Next

C6_Witness == pc = "done" /\ serial = "closed" /\ outcome = "error" /\ sent # <<>>

\* C7: a destructive command is sent only after the operator confirmed, and
\* none is sent when the operator declined
C7_DestructiveOnlyAfterConfirm ==
    /\ DestructiveSent => asked = "confirmed"
    /\ asked = "declined" => ~DestructiveSent

\* C8: no command is sent before the bootloader prompt banner was observed
C8_CommandsOnlyAfterPrompt == sent # <<>> => prompt_seen

\* C9: for a partition table with a qualifying line (the fields 0 and 2 of the
\* qualifying lines being integers), the result is the index of a qualifying
\* line of maximal size
C9_LargestPartitionChosen ==
    LET q       == QualLines(part_output)
        idxOf(k)  == SplitWs(q[k])[1]
        sizeOf(k) == SplitWs(q[k])[3]
    IN  (/\ pc = "parsed"
         /\ q # <<>>
         /\ \A k \in 1..Len(q) : IsInt(idxOf(k)) /\ IsInt(sizeOf(k)))
        => \E k \in 1..Len(q) :
              /\ \A j \in 1..Len(q) : IntVal(sizeOf(j)) <= IntVal(sizeOf(k))
              /\ device.data_partition = Some(IntVal(idxOf(k)))

\* C10: when printenv shows no mmcdev= or the partition table has no
\* qualifying line, no partition is identified, run() stops there and no
\* command of a later stage is sent
NoMmcdev == "printenv" \in SentOps /\ ~IsSubstr(MmcdevKey, env_output)
NoQualifyingLine == "mmc part" \in SentOps /\ QualLines(part_output) = <<>>

C10_NoPartitionAborts ==
    (NoMmcdev \/ NoQualifyingLine)
    => /\ device.data_partition = None
       /\ pc \in {"finally", "done"}
       /\ outcome = "no_partition"
       /\ SentOps \cap LaterOps = {}

C10_Witness == NoQualifyingLine /\ ~NoMmcdev /\ pc = "done"

\* C11: when the complete startup banner arrives after the reset and in time
\* for a poll before the deadline, however it is divided among the polls,
\* verify_modifications returns success
C11_BannerInTimeSucceeds ==
    (/\ pc \in {"finally", "done"}
     /\ "reset" \in SentOps
     /\ ~verify_fault
     /\ api_track = ApiBanner)
    => outcome = "success"

\* C12: wait_for_bootloader is called at most twice, first with 30s and then,
\* only after a timeout and the operator's confirmation, once with 60s; when
\* the second call times out run() fails and no destructive command is sent
C12_AtMostTwoWaits ==
    /\ attempt <= 2
    /\ Len(waits) <= attempt
    /\ Len(waits) >= 1 => waits[1].timeout = FirstTimeout
    /\ attempt = 2 => (waits[1].result = "timeout" /\ asked = "confirmed")
    /\ Len(waits) = 2 => waits[2].timeout = RetryTimeout
    /\ (Len(waits) = 2 /\ waits[2].result = "timeout")
          => /\ pc \in {"finally", "done"}
             /\ outcome = "no_bootloader"
             /\ ~DestructiveSent

C12_Witness == Len(waits) = 2 /\ waits[2].result = "timeout" /\ pc = "done"

\* the stage of the workflow a position of run() belongs to
StageOf(p) ==
    CASE p = "start" -> 1
      [] p = "connect" -> 2
      [] p = "backup" -> 3
      [] p \in {"printenv", "mmc dev", "mmc part"} -> 4
      [] p \in {"wait", "confirm"} -> 5
      [] p \in {"zero", "commands", "md.b", "ext4write", "ext4ls"} -> 6
      [] p \in {"reset", "poll"} -> 7
      [] p \in {"finally", "done"} -> 8

\* C13: the stages are passed in the order PortSelection, Connecting,
\* BackingUp, PartitionDiscovery, BootloaderWait, Enabling, Verifying, end:
\* a step stays in its stage, enters the next one, or ends the run
C13_StageOrder ==
    [][StageOf(pc') \in {StageOf(pc), StageOf(pc) + 1, 8}]_vars

C13_Witness == pc = "poll" /\ asked = "confirmed"

\* C14: reset is sent at most once, only with api_enabled true, and not at
\* all when enable_api_access failed
C14_ResetOnceAfterEnable ==
    /\ Count("reset") <= 1
    /\ "reset" \in SentOps => device.api_enabled
    /\ outcome = "enable_failed" => "reset" \notin SentOps

C14_Witness == Count("reset") = 1 /\ outcome = "verify_failed" /\ pc = "done"

\* C15: the output matched after printenv, mmc part, md.b and ext4ls holds
\* only what was received after that command was written
C15_OutputOfThisCommandOnly ==
    /\ "printenv" \in SentOps
          => env_output \in { Echo(Cmd("printenv", <<>>)) \o r : r \in PrintenvResponses }
    /\ "mmc part" \in SentOps
          => part_output \in { Echo(Cmd("mmc part", <<>>)) \o r : r \in PartResponses }
    /\ "md.b" \in SentOps
          => dump_output = Echo(Cmd("md.b", <<>>)) \o dump_resp
    /\ "ext4ls" \in SentOps
          => ls_output = Echo(Cmd("ext4ls", device.data_partition)) \o ls_resp

\* C16: wait_for_bootloader returns True exactly when the banner is in its
\* buffer, which happens before the deadline, and returns False only when the
\* elapsed time has reached the timeout
C16_WaitResult ==
    /\ pc = "wait" => ~IsSubstr(BootBanner, buffer)
    /\ \A i \in 1..Len(waits) :
          /\ waits[i].result = "found" <=> waits[i].banner
          /\ waits[i].result = "found" => ~waits[i].late
          /\ waits[i].result = "timeout" => waits[i].late

C16_Witness ==
    Len(waits) = 2 /\ waits[1].result = "timeout" /\ waits[2].result = "found"

\* the bytes of "true\n" as hex codes, and the last digit of their addresses
TrueNewline == << <<"7", "4">>, <<"7", "2">>, <<"7", "5">>, <<"6", "5">>, <<"0", "a">> >>
ScratchDigits == <<"0", "1", "2", "3", "4">>

EnableOps == {"mw.b fill", "mw.b", "md.b", "ext4write", "ext4ls"}
EnableSent == SelectSeq(sent, LAMBDA c : c.op \in EnableOps)
EnableOrder ==
    <<"mw.b fill", "mw.b", "mw.b", "mw.b", "mw.b", "mw.b", "md.b", "ext4write", "ext4ls">>

\* C17: enable_api_access writes the zero fill, then 0x74 0x72 0x75 0x65 0x0a
\* to 0x82000000 .. 0x82000004 in ascending order, then md.b, ext4write and
\* ext4ls; at the dump the memory holds the bytes of "true\n" in order
C17_EnableCommandOrder ==
    /\ Len(EnableSent) <= Len(EnableOrder)
    /\ \A k \in 1..Len(EnableSent) :
          /\ EnableSent[k].op = EnableOrder[k]
          /\ k \in 2..6 =>
                CmdText(EnableSent[k])
                    = <<"mw.b 0x8200000", ScratchDigits[k - 1], " 0x">>
                          \o TrueNewline[k - 1] \o <<NL>>
    /\ "md.b" \in SentOps => \A a \in 1..5 : mem[a] = TrueNewline[a]

C17_Witness == "ext4ls" \in SentOps /\ Len(EnableSent) = 9

\* C18: the port is opened in at most 3 tries; when all fail run() ends with
\* an error and no command written; after the port is open no try is made
C18_OpenInv ==
    /\ tries <= 3
    /\ serial # "none" => pc # "connect"
    /\ sent # <<>> => serial # "none"
    /\ (serial = "none" /\ tries = 3) => (pc \in {"finally", "done"} /\ outcome = "error")

C18_BoundedOpen ==
    [] C18_OpenInv /\ [][serial # "none" => tries' = tries]_vars

C18_Witness == serial = "none" /\ tries = 3 /\ pc = "done"

\* C19: every run ends: both wait loops are left by their deadline and run()
\* reaches its end through the cleanup
C19_Terminates == <>(pc = "done")

C19_Witness ==
    /\ pc = "done"
    /\ Len(waits) = 2
    /\ outcome = "verify_failed"
    /\ elapsed >= VerifyTimeout

\* the commands of a complete run, in order
FullOrder ==
    <<"printenv", "mmc dev", "mmc part", "mw.b fill", "mw.b", "mw.b", "mw.b",
      "mw.b", "mw.b", "md.b", "ext4write", "ext4ls", "reset">>

LargestIsZero ==
    LET q         == QualLines(part_output)
        idxOf(k)  == SplitWs(q[k])[1]
        sizeOf(k) == SplitWs(q[k])[3]
    IN  /\ "mmc part" \in SentOps
        /\ q # <<>>
        /\ \A k \in 1..Len(q) : IsInt(idxOf(k)) /\ IsInt(sizeOf(k))
        /\ \E k \in 1..Len(q) :
              /\ IntVal(idxOf(k)) = 0
              /\ IntVal(sizeOf(k)) > 0
              /\ \A j \in 1..Len(q) \ {k} : IntVal(sizeOf(j)) < IntVal(sizeOf(k))

\* C21: partition index 0 counts as "not identified": when the line with the
\* largest size has index 0, run() reports that no data partition was
\* identified and stops before the first wait for the bootloader, no
\* destructive command is sent, and ext4write is never sent for partition 0
C21_IndexZeroNotIdentified ==
    /\ LargestIsZero
       => /\ device.data_partition = Some(0)
          /\ pc \in {"finally", "done"}
          /\ outcome = "no_partition"
          /\ attempt = 0
          /\ waits = <<>>
          /\ ~DestructiveSent
          /\ SentOps \cap LaterOps = {}
    /\ \A i \in 1..Len(sent) :
          sent[i].op = "ext4write" => sent[i].arg # Some(0)

C21_Witness == LargestIsZero /\ pc = "done" /\ serial = "closed"

\* s is an initial part of t
IsPrefix(s, t) == Len(s) <= Len(t) /\ SubSeq(t, 1, Len(s)) = s

\* the prompt banner was among the bytes read_all took after printenv or
\* after mmc part
BannerDrained ==
    IsSubstr(BootBanner, env_output) \/ IsSubstr(BootBanner, part_output)

\* C22: what the read_all calls after printenv and after mmc part took is no
\* part of the buffer wait_for_bootloader matches on: the buffer holds only
\* bytes that were received and not yet read when the wait started or that
\* arrived during it, and a wait returns True only if the complete banner
\* occurs among those bytes, whether or not a banner was read before
C22_DrainedBytesNotMatched ==
    /\ pc = "wait" => IsPrefix(buffer, fresh) /\ fresh = buffer \o rx
    /\ \A i \in 1..Len(waits) : waits[i].result = "found" => waits[i].arrived
    /\ (BannerDrained /\ Len(waits) = attempt /\ attempt >= 1
          /\ ~waits[attempt].arrived)
       => ~prompt_seen /\ SentOps \cap LaterOps = {}

C22_Witness ==
    /\ IsSubstr(BootBanner, env_output)
    /\ IsSubstr(BootBanner, part_output)
    /\ Len(waits) = 2
    /\ waits[1].result = "timeout" /\ ~waits[1].arrived
    /\ waits[2].result = "timeout" /\ ~waits[2].arrived
    /\ outcome = "no_bootloader"

=============================================================================
